---- MODULE Spec2Model ----
(***************************************************************************)
(* Model of DAEDisaggregator (src/DAE/daedisaggregator.py): the chunked    *)
(* training / disaggregation pipeline around a fixed-size window model,    *)
(* its normalization scale mmax, and model persistence.                    *)
(*                                                                         *)
(* Numbers are extended rationals <<num, den>>: den > 0 is a finite value  *)
(* in lowest terms, <<1,0>> is +inf, <<-1,0>> is -inf and <<0,0>> is NaN,  *)
(* which is what numpy/pandas float arithmetic produces for x/0 and 0/0.   *)
(* A series (pandas Series) is a sequence of <<timestamp, value>> pairs    *)
(* with strictly increasing timestamps.                                    *)
(*                                                                         *)
(* The predictor is a black box: fit changes its weights, predict returns  *)
(* any batch of the shape it was given.  Whether np.reshape takes the      *)
(* float dimension of line 197 depends on the installed numpy, so it is a  *)
(* choice made when the instance is created (numpy_float_dims).            *)
(***************************************************************************)
EXTENDS Integers, Sequences, FiniteSets, TLC

\* ---------------------------------------------------------------- bounds
MaxLen == 2
MaxSeqLen == 2
MaxChunks == 2
MaxCalls == 2

\* ---------------------------------------------------------------- numbers
None == <<>>
NaN == <<0, 0>>
Inf == <<1, 0>>
NegInf == <<-1, 0>>
I(n) == <<n, 1>>
Zero == I(0)

IsNaN(v) == v = NaN
IsFinite(v) == v[2] # 0
Lt0(v) == v[1] < 0

Abs(n) == IF n < 0 THEN -n ELSE n

RECURSIVE GCD(_, _)
GCD(a, b) == IF b = 0 THEN a ELSE GCD(b, a % b)

\* a / c for integers a, c as floating point would give it (exact otherwise)
Frac(a, c) ==
    IF c = 0
    THEN (IF a = 0 THEN NaN ELSE IF a > 0 THEN Inf ELSE NegInf)
    ELSE LET g == GCD(Abs(a), Abs(c))
             sg == IF c < 0 THEN -1 ELSE 1
         IN  <<(sg * a) \div g, (sg * c) \div g>>

\* x / m  for a reading x (integer or NaN) and a scale m (integer or NaN)
Div(x, m) == IF IsNaN(x) \/ IsNaN(m) THEN NaN ELSE Frac(x[1], m[1])

\* v * m  for a finite or non-finite v and a scale m (integer or NaN)
Mul(v, m) ==
    IF IsNaN(v) \/ IsNaN(m) THEN NaN
    ELSE IF v[2] = 0
         THEN (IF m[1] = 0 THEN NaN
               ELSE IF (v[1] > 0) = (m[1] > 0) THEN Inf ELSE NegInf)
         ELSE Frac(v[1] * m[1], v[2])

\* ---------------------------------------------------------------- series
Index(c) == [i \in 1..Len(c) |-> c[i][1]]
Values(c) == [i \in 1..Len(c) |-> c[i][2]]
Range(q) == {q[i] : i \in 1..Len(q)}
Zeros(n) == [i \in 1..n |-> Zero]

\* Series.max(): the largest value, missing values skipped; NaN when none
SeriesMax(c) ==
    LET present == {c[i][2][1] : i \in {k \in 1..Len(c) : ~IsNaN(c[k][2])}}
    IN  IF present = {} THEN NaN
        ELSE I(CHOOSE m \in present : \A x \in present : x <= m)

FillZero(v) == IF IsNaN(v) THEN Zero ELSE v
fillna(c) == [i \in 1..Len(c) |-> <<c[i][1], FillZero(c[i][2])>>]

_normalize(chunk, m) == [i \in 1..Len(chunk) |-> <<chunk[i][1], Div(chunk[i][2], m)>>]
_denormalize(chunk, m) == [i \in 1..Len(chunk) |-> <<chunk[i][1], Mul(chunk[i][2], m)>>]

\* no clipping
ClipValueNever(v) == v

\* appliance_power[appliance_power < 0] = 0
ClipValue(v) == IF Lt0(v) THEN Zero ELSE v
Clip(c) == [i \in 1..Len(c) |-> <<c[i][1], ClipValue(c[i][2])>>]

\* ---------------------------------------------------------------- windowing
Additional(n, s) == s - (n % s)

\* np.reshape(flat, (rows, s, 1)): row-major, needs rows * s = len(flat)
Reshape(flat, rows, s) == [i \in 1..rows |-> [j \in 1..s |-> flat[(i - 1) * s + j]]]

\* np.reshape(batch, (total)): row-major flattening
Flatten(batch, total, s) ==
    [k \in 1..total |-> batch[((k - 1) \div s) + 1][((k - 1) % s) + 1]]

\* the mains index, not intersected
IntersectionLeft(a, b) == Index(a)

\* mainchunk.index.intersection(meterchunk.index)
Intersection(a, b) == SelectSeq(Index(a), LAMBDA t : t \in Range(Index(b)))
SelectIx(c, ix) == SelectSeq(c, LAMBDA p : p[1] \in Range(ix))

\* the number of rows handed to np.reshape: line 113 converts the quotient of
\* the true division (line 1) with int(), line 197 passes the float itself
IntDim(len, s) == [float |-> FALSE, n |-> len \div s]
TrueDivDim(len, s) == [float |-> TRUE, n |-> len \div s]

\* train_on_chunk, lines 96-114: what is handed to fit
TrainWindows(mainchunk, meterchunk, s) ==
    LET m1 == fillna(mainchunk)
        m2 == fillna(meterchunk)
        ix == Intersection(m1, m2)
        additional == Additional(Len(ix), s)
        X == Values(SelectIx(m1, ix)) \o Zeros(additional)
        Y == Values(SelectIx(m2, ix)) \o Zeros(additional)
    IN  [fn |-> "train_on_chunk",
         mainchunk |-> mainchunk, meterchunk |-> meterchunk, ix |-> ix,
         X_batch |-> Reshape(X, IntDim(Len(X), s).n, s),
         Y_batch |-> Reshape(Y, IntDim(Len(Y), s).n, s)]

\* disaggregate_chunk, lines 190-197: the batch handed to predict
PredictInput(mains, s) ==
    LET up_limit == Len(mains)
        additional == Additional(up_limit, s)
        X == Values(fillna(mains)) \o Zeros(additional)
    IN  Reshape(X, TrueDivDim(Len(X), s).n, s)

\* np.reshape takes an int as a dimension; a float only on a numpy that
\* still converts it (before 1.12), otherwise it raises TypeError
DimAccepted(dim, floats_ok) == ~dim.float \/ floats_ok

\* disaggregate_chunk, lines 200-206: the returned appliance_powers
Column(pred, mains, s) ==
    LET up_limit == Len(mains)
        additional == Additional(up_limit, s)
        flat == SubSeq(Flatten(pred, up_limit + additional, s), 1, up_limit)
    IN  [i \in 1..up_limit |-> <<mains[i][1], flat[i]>>]

\* ---------------------------------------------------------------- inputs
\* all series over the timestamps `times` with at most `maxlen` samples
SeriesOver(times, vals, maxlen) ==
    UNION {
        {[i \in 1..Cardinality(T) |->
            <<CHOOSE t \in T : Cardinality({u \in T : u < t}) = i - 1, f[i]>>]
           : f \in [1..Cardinality(T) -> vals]}
        : T \in {U \in SUBSET times : Cardinality(U) <= maxlen}}

MainsReadings == {NaN, I(0), I(1), I(2)}
MeterReadings == {NaN, I(3)}
PredValues == {I(-1), I(1)}

\* chunks handed directly to train_on_chunk / disaggregate_chunk
MainsChunks == SeriesOver(1..(MaxLen + 1), MainsReadings, MaxLen)
MeterChunks == SeriesOver(1..(MaxLen + 1), MeterReadings, MaxLen)
\* chunks yielded by power_series() during train / disaggregate: n samples at
\* the timestamps 1..n, all of one reading
Steady(n, v) == [i \in 1..n |-> <<i, v>>]
StreamMains == {Steady(n, v) : n \in 0..MaxLen, v \in {NaN, I(0), I(1), I(2)}}
StreamMeter == {Steady(n, I(1)) : n \in 0..MaxLen}
DisaggStream == {Steady(n, v) : n \in 0..MaxLen, v \in {NaN, I(2)}}

\* what a black-box predictor may return for a batch: a batch of that shape
Predictions(X) ==
    {X} \cup [1..Len(X) -> [1..(IF Len(X) = 0 THEN 0 ELSE Len(X[1])) -> PredValues]]

FileName == "model.h5"
NoFile == [exists |-> FALSE]
\* artifacts written by other instances: a complete one, and a bare keras file
ForeignModel == [origin |-> "foreign", fits |-> 0]
ForeignFiles ==
    {[exists |-> TRUE, model |-> ForeignModel, group |-> TRUE, mmax |-> m]
        : m \in {I(-1), I(2)}}
    \cup {[exists |-> TRUE, model |-> ForeignModel, group |-> FALSE, mmax |-> None]}

\* ---------------------------------------------------------------- state
VARIABLES
    sequence_length,      \* self.sequence_length
    numpy_float_dims,     \* the installed numpy takes a float as a reshape dimension
    mmax,                 \* self.mmax
    model,                \* self.model: which weights the predictor holds
    file,                 \* the artifact stored under FileName
    pc,                   \* "idle", the method whose loop is running, or "done"
    op,                   \* the method called last
    err,                  \* the exception the last call raised, "none" if none
    calls,                \* how many method calls the instance has had
    main_power_series,    \* train / disaggregate: the mains chunk iterator
    meter_power_series,   \* train: the meter chunk iterator
    mainchunk,            \* train: the mains chunk held
    meterchunk,           \* train: the meter chunk held
    fitLog,               \* train: the (mains, meter) chunk positions of each fit
    mmaxByTrain,          \* the value train gave mmax when it was unset
    lens,                 \* disaggregate: the lengths of the chunks pulled
    timeframes,           \* disaggregate: timeframes
    data_is_available,    \* disaggregate: data_is_available
    output_datastore,     \* disaggregate: what the sink received, in order
    call                  \* the last train_on_chunk / disaggregate_chunk call

vars == <<sequence_length, numpy_float_dims, mmax, model, file, pc, op, err, calls,
          main_power_series, meter_power_series, mainchunk, meterchunk, fitLog,
          mmaxByTrain, lens, timeframes, data_is_available, output_datastore, call>>

instanceVars == <<sequence_length, numpy_float_dims>>
trainVars == <<main_power_series, meter_power_series, mainchunk, meterchunk, fitLog>>
disaggVars == <<lens, timeframes, data_is_available, output_datastore>>

MIN_CHUNK_LENGTH == sequence_length

NoChunk == [timeframe |-> 0, data |-> <<>>]
Exhausted == [left |-> 0, pulled |-> 0]
NoCall == [fn |-> "none"]

\* __init__, lines 46-52
Created ==
    /\ sequence_length \in 1..MaxSeqLen
    /\ numpy_float_dims \in BOOLEAN
    /\ mmax = None
    /\ model = [origin |-> "created", fits |-> 0]
    /\ pc = "idle"
    /\ op = "__init__"
    /\ err = "none"
    /\ calls = 0
    /\ main_power_series = Exhausted
    /\ meter_power_series = Exhausted
    /\ fitLog = <<>>
    /\ mmaxByTrain = None
    /\ lens = <<>>
    /\ timeframes = <<>>
    /\ data_is_available = FALSE
    /\ output_datastore = <<>>
    /\ call = NoCall

Init ==
    /\ Created
    /\ file \in {NoFile} \cup ForeignFiles
    /\ mainchunk = NoChunk
    /\ meterchunk = NoChunk

\* model.fit(X_batch, Y_batch, ...): the weights change
Fit(m) == [m EXCEPT !.fits = @ + 1]

\* next(it): the iterator after a successful pull
Pulled(it) == [left |-> it.left - 1, pulled |-> it.pulled + 1]

\* the locals of a method that has returned
NoTrainLocals ==
    /\ main_power_series' = Exhausted
    /\ meter_power_series' = Exhausted
    /\ mainchunk' = NoChunk
    /\ meterchunk' = NoChunk
    /\ fitLog' = <<>>

NoDisaggLocals ==
    /\ lens' = <<>>
    /\ timeframes' = <<>>
    /\ data_is_available' = FALSE
    /\ output_datastore' = <<>>

\* ---------------------------------------------------------------- train
\* the scale taken from every first chunk, set or not
FirstScaleAlways(cur, chunk) == SeriesMax(chunk)

\* lines 72-73
FirstScale(cur, chunk) == IF cur = None THEN SeriesMax(chunk) ELSE cur

\* lines 76-79: normalize both chunks with scale m, train_on_chunk (which
\* zero-fills the two normalized series in place, lines 101-102)
TrainPass(c, d, m, log) ==
    /\ mainchunk' = [c EXCEPT !.data = fillna(_normalize(c.data, m))]
    /\ meterchunk' = [d EXCEPT !.data = fillna(_normalize(d.data, m))]
    /\ call' = TrainWindows(_normalize(c.data, m), _normalize(d.data, m),
                            sequence_length)
    /\ model' = Fit(model)
    /\ fitLog' = Append(log, <<c.timeframe, d.timeframe>>)

\* train, lines 65-79: the first pull from each source, the scale, the first pass
TrainStart ==
    /\ pc = "idle"
    /\ calls < MaxCalls
    /\ calls' = calls + 1
    /\ op' = "train"
    /\ \E M \in 0..MaxChunks, K \in 0..MaxChunks :
        /\ IF M = 0
           THEN \* next(main_power_series) raises StopIteration, line 70
                /\ main_power_series' = [left |-> 0, pulled |-> 0]
                /\ meter_power_series' = [left |-> K, pulled |-> 0]
                /\ mainchunk' = NoChunk
                /\ meterchunk' = NoChunk
                /\ err' = "StopIteration"
                /\ pc' = "done"
                /\ fitLog' = <<>>
                /\ call' = NoCall
                /\ UNCHANGED <<mmax, mmaxByTrain, model>>
           ELSE IF K = 0
           THEN \* next(meter_power_series) raises StopIteration, line 71
                \E c \in StreamMains :
                /\ main_power_series' = [left |-> M - 1, pulled |-> 1]
                /\ meter_power_series' = [left |-> 0, pulled |-> 0]
                /\ mainchunk' = [timeframe |-> 1, data |-> c]
                /\ meterchunk' = NoChunk
                /\ err' = "StopIteration"
                /\ pc' = "done"
                /\ fitLog' = <<>>
                /\ call' = NoCall
                /\ UNCHANGED <<mmax, mmaxByTrain, model>>
           ELSE \E c \in StreamMains, d \in StreamMeter :
                /\ main_power_series' = [left |-> M - 1, pulled |-> 1]
                /\ meter_power_series' = [left |-> K - 1, pulled |-> 1]
                /\ mmax' = FirstScale(mmax, c)
                /\ mmaxByTrain' = IF mmax = None THEN mmax' ELSE mmaxByTrain
                /\ TrainPass([timeframe |-> 1, data |-> c],
                             [timeframe |-> 1, data |-> d], mmax', <<>>)
                /\ err' = "none"
                /\ pc' = "train"
    /\ UNCHANGED <<instanceVars, file, disaggVars>>

\* train, lines 80-84 and 76-79: the next pull from each source, the next pass
TrainStep ==
    /\ pc = "train"
    /\ IF main_power_series.left = 0
       THEN \* line 81 raises, caught at line 83: run = False
            /\ pc' = "done"
            /\ UNCHANGED <<trainVars, model, call>>
       ELSE \E c \in StreamMains :
            /\ main_power_series' = Pulled(main_power_series)
            /\ IF meter_power_series.left = 0
               THEN \* line 82 raises, caught at line 83: run = False
                    /\ pc' = "done"
                    /\ mainchunk' =
                         [timeframe |-> main_power_series.pulled + 1, data |-> c]
                    /\ UNCHANGED <<meter_power_series, meterchunk, fitLog, model, call>>
               ELSE \E d \in StreamMeter :
                    /\ meter_power_series' = Pulled(meter_power_series)
                    /\ TrainPass(
                         [timeframe |-> main_power_series.pulled + 1, data |-> c],
                         [timeframe |-> meter_power_series.pulled + 1, data |-> d],
                         mmax, fitLog)
                    /\ pc' = "train"
    /\ UNCHANGED <<calls, instanceVars, mmax, mmaxByTrain, file, op, err, disaggVars>>

\* ---------------------------------------------------------------- disaggregate
\* disaggregate_chunk, lines 190-206, for each batch predict may return
DisaggregateChunk(mains, s, floats_ok) ==
    IF ~DimAccepted(TrueDivDim(Len(mains) + Additional(Len(mains), s), s), floats_ok)
    THEN {[fn |-> "disaggregate_chunk", mains |-> mains, raised |-> TRUE,
           X_batch |-> <<>>, pred |-> <<>>, ret |-> <<>>]}
    ELSE {[fn |-> "disaggregate_chunk", mains |-> mains, raised |-> FALSE,
           X_batch |-> PredictInput(mains, s), pred |-> pred,
           ret |-> Column(pred, mains, s)]
            : pred \in Predictions(PredictInput(mains, s))}

\* a threshold one below the window size
TooShortByOne(chunk) == Len(chunk) < MIN_CHUNK_LENGTH - 1

\* line 141
TooShort(chunk) == Len(chunk) < MIN_CHUNK_LENGTH

\* lines 150-151, 157-165: what one chunk adds to the sink
Appended(k, chunk, ret, m) ==
    << [kind |-> "append", key |-> "appliance", timeframe |-> k,
        data |-> _denormalize(Clip(ret), m)],
       [kind |-> "append", key |-> "mains", timeframe |-> k, data |-> chunk] >>

\* disaggregate, lines 130-138
DisaggregateStart ==
    /\ pc = "idle"
    /\ calls < MaxCalls
    /\ calls' = calls + 1
    /\ \E N \in 0..MaxChunks : main_power_series' = [left |-> N, pulled |-> 0]
    /\ lens' = <<>>
    /\ timeframes' = <<>>
    /\ data_is_available' = FALSE
    /\ output_datastore' = <<>>
    /\ call' = NoCall
    /\ op' = "disaggregate"
    /\ err' = "none"
    /\ pc' = "disaggregate"
    /\ UNCHANGED <<instanceVars, mmax, mmaxByTrain, model, file,
                   meter_power_series, mainchunk, meterchunk, fitLog>>

\* disaggregate, lines 140-165: one pass of the loop
DisaggregateStep ==
    /\ pc = "disaggregate"
    /\ main_power_series.left > 0
    /\ \E chunk \in DisaggStream :
        LET k == main_power_series.pulled + 1 IN
        /\ main_power_series' = Pulled(main_power_series)
        /\ lens' = Append(lens, Len(chunk))
        /\ IF TooShort(chunk)
           THEN UNCHANGED <<timeframes, data_is_available, output_datastore,
                            call, pc, err>>
           ELSE /\ timeframes' = Append(timeframes, k)
                /\ IF mmax = None
                   THEN \* chunk / None raises TypeError, line 245
                        /\ err' = "TypeError"
                        /\ pc' = "done"
                        /\ UNCHANGED <<data_is_available, output_datastore, call>>
                   ELSE \E r \in DisaggregateChunk(_normalize(chunk, mmax),
                                                  sequence_length, numpy_float_dims) :
                        /\ call' = r
                        /\ IF r.raised
                           THEN /\ err' = "TypeError"
                                /\ pc' = "done"
                                /\ UNCHANGED <<data_is_available, output_datastore>>
                           ELSE /\ data_is_available' = TRUE
                                /\ output_datastore' =
                                     output_datastore \o Appended(k, chunk, r.ret, mmax)
                                /\ UNCHANGED <<pc, err>>
    /\ UNCHANGED <<calls, instanceVars, mmax, mmaxByTrain, model, file, op,
                   meter_power_series, mainchunk, meterchunk, fitLog>>

\* disaggregate, lines 167-176: the stream is exhausted
DisaggregateEnd ==
    /\ pc = "disaggregate"
    /\ main_power_series.left = 0
    /\ output_datastore' =
         IF data_is_available
         THEN Append(output_datastore,
                     [kind |-> "metadata", timeframes |-> timeframes])
         ELSE output_datastore
    /\ pc' = "done"
    /\ UNCHANGED <<calls, instanceVars, mmax, mmaxByTrain, model, file, op, err, trainVars,
                   lens, timeframes, data_is_available, call>>

\* ---------------------------------------------------------------- persistence
\* import_model, lines 218-221
import_model ==
    /\ pc = "idle"
    /\ calls < MaxCalls
    /\ calls' = calls + 1
    /\ op' = "import_model"
    /\ IF ~file.exists
       THEN \* load_model raises before anything is assigned
            /\ err' = "IOError"
            /\ UNCHANGED <<model, mmax>>
       ELSE /\ model' = file.model
            /\ IF ~file.group
               THEN \* hf.get('disaggregator-data') is None
                    /\ err' = "AttributeError"
                    /\ UNCHANGED mmax
               ELSE IF file.mmax = None
               THEN \* np.array(None)[0]
                    /\ err' = "IndexError"
                    /\ UNCHANGED mmax
               ELSE /\ err' = "none"
                    /\ mmax' = file.mmax
    /\ UNCHANGED <<instanceVars, mmaxByTrain, file, pc, trainVars, disaggVars, call>>

\* export_model, lines 230-233
export_model ==
    /\ pc = "idle"
    /\ calls < MaxCalls
    /\ calls' = calls + 1
    /\ op' = "export_model"
    /\ file' = [exists |-> TRUE, model |-> model, group |-> TRUE, mmax |-> mmax]
    /\ err' = IF mmax = None THEN "TypeError" ELSE "none"
    /\ UNCHANGED <<instanceVars, mmax, mmaxByTrain, model, pc, trainVars, disaggVars, call>>

\* train or disaggregate returns or raises to its caller: its locals are gone
Return ==
    /\ pc = "done"
    /\ pc' = "idle"
    /\ NoTrainLocals
    /\ NoDisaggLocals
    /\ call' = NoCall
    /\ UNCHANGED <<calls, instanceVars, mmax, mmaxByTrain, model, file, op, err>>

Next ==
    \/ Return
    \/ TrainStart
    \/ TrainStep
    \/ DisaggregateStart
    \/ DisaggregateStep
    \/ DisaggregateEnd
    \/ import_model
    \/ export_model

Spec == Init /\ [][Next]_vars

\* ---------------------------------------------------------------- chunk calls
\* train_on_chunk(mainchunk, meterchunk, ...), lines 96-116
train_on_chunk ==
    /\ pc = "idle"
    /\ calls < MaxCalls
    /\ calls' = calls + 1
    /\ call' = TrainWindows(mainchunk.data, meterchunk.data, sequence_length)
    /\ model' = Fit(model)
    /\ op' = "train_on_chunk"
    /\ err' = "none"
    /\ UNCHANGED <<instanceVars, mmax, mmaxByTrain, file, pc, trainVars, disaggVars>>

\* a new instance and the pair of chunks train_on_chunk is called with
InitTrainOnChunk ==
    /\ Created
    /\ file = NoFile
    /\ mainchunk \in {[timeframe |-> 1, data |-> c] : c \in MainsChunks}
    /\ meterchunk \in {[timeframe |-> 1, data |-> c] : c \in MeterChunks}

SpecTrainOnChunk == InitTrainOnChunk /\ [][train_on_chunk]_vars

\* disaggregate_chunk(mainchunk), lines 190-206
disaggregate_chunk ==
    /\ pc = "idle"
    /\ calls < MaxCalls
    /\ calls' = calls + 1
    /\ \E r \in DisaggregateChunk(mainchunk.data, sequence_length, numpy_float_dims) :
        /\ call' = r
        /\ err' = IF r.raised THEN "TypeError" ELSE "none"
    /\ op' = "disaggregate_chunk"
    /\ UNCHANGED <<instanceVars, mmax, mmaxByTrain, model, file, pc, trainVars,
                   disaggVars>>

\* a new instance and the chunk disaggregate_chunk is called with
InitDisaggregateChunk ==
    /\ Created
    /\ file = NoFile
    /\ mainchunk \in {[timeframe |-> 1, data |-> c] : c \in MainsChunks}
    /\ meterchunk = NoChunk

SpecDisaggregateChunk == InitDisaggregateChunk /\ [][disaggregate_chunk]_vars

\* ================================================================ claims
Ge0(v) == ~IsNaN(v) /\ v[1] >= 0
Le0(v) == ~IsNaN(v) /\ v[1] <= 0
Positive(m) == m # None /\ IsFinite(m) /\ m[1] > 0
Negative(m) == m # None /\ IsFinite(m) /\ m[1] < 0
NotPositive(m) == m # None /\ IsFinite(m) /\ m[1] <= 0
Min2(a, b) == IF a <= b THEN a ELSE b

\* B is the windowing of vals with window size s: floor(n/s) + 1 windows of
\* s elements, window i holding samples [i*s, (i+1)*s) of vals padded with zeros
IsWindowing(B, vals, s) ==
    /\ Len(B) = (Len(vals) \div s) + 1
    /\ Len(B) * s - Len(vals) = (IF Len(vals) % s = 0 THEN s ELSE s - (Len(vals) % s))
    /\ \A i \in 1..Len(B) :
        /\ Len(B[i]) = s
        /\ \A j \in 1..s :
            B[i][j] = IF (i - 1) * s + j <= Len(vals)
                      THEN vals[(i - 1) * s + j] ELSE Zero

\* C1 (as stated): once train has set mmax on an instance where it was unset,
\* mmax keeps that value whatever operation follows, import_model included.
C1_SetOnce == mmaxByTrain # None => mmax = mmaxByTrain

\* C1 (amended): once mmax is set, train, disaggregate, export_model and a
\* failing import_model leave it unchanged; a successful import_model replaces
\* it by the scale stored in the artifact.
C1_SetOnceButImport ==
    [][IF op' = "import_model" /\ err' = "none"
       THEN mmax' = file.mmax
       ELSE (mmax # None => mmax' = mmax)]_vars

\* a train pass on a chunk whose maximum exceeds the scale set earlier
C1_Witness ==
    /\ mmax = I(1)
    /\ mmaxByTrain = I(1)
    /\ op = "train"
    /\ call.fn = "train_on_chunk"
    /\ \E i \in 1..Len(call.mainchunk) : call.mainchunk[i][2] = I(2)

\* C2: disaggregate_chunk with an identity predictor returns the zero-filled
\* input: the same length, the same time index and values; what the truncation
\* drops is the padding.
C2_RoundTrip ==
    op = "disaggregate_chunk" =>
        /\ ~call.raised
        /\ call.pred = call.X_batch =>
            /\ Len(call.ret) = Len(mainchunk.data)
            /\ call.ret = fillna(mainchunk.data)
            /\ \A k \in (Len(mainchunk.data) + 1)..(Len(call.X_batch) * sequence_length) :
                Flatten(call.pred, Len(call.X_batch) * sequence_length,
                        sequence_length)[k] = Zero

\* C3: windowing in train_on_chunk and in disaggregate_chunk pads with
\* s - (n mod s) zeros and yields floor(n/s) + 1 windows of s elements each,
\* window i holding samples [i*s, (i+1)*s) of the padded series.
C3_Windows ==
    /\ op = "train_on_chunk" =>
        /\ IsWindowing(call.X_batch,
                       Values(SelectSeq(fillna(mainchunk.data),
                                        LAMBDA p : p[1] \in Range(Index(meterchunk.data)))),
                       sequence_length)
        /\ IsWindowing(call.Y_batch,
                       Values(SelectSeq(fillna(meterchunk.data),
                                        LAMBDA p : p[1] \in Range(Index(mainchunk.data)))),
                       sequence_length)
    /\ op = "disaggregate_chunk" =>
        /\ ~call.raised
        /\ IsWindowing(call.X_batch, Values(fillna(mainchunk.data)), sequence_length)

\* C4: every appliance power value handed to the sink is >= 0 when the scale
\* is > 0, whatever the predictor returned; the clip comes before the
\* denormalization, so with a scale < 0 every value is <= 0.
C4_NonNegative ==
    op = "disaggregate" =>
        \A e \in 1..Len(output_datastore) :
            (output_datastore[e].kind = "append" /\ output_datastore[e].key = "appliance") =>
                \A i \in 1..Len(output_datastore[e].data) :
                    /\ Positive(mmax) => Ge0(output_datastore[e].data[i][2])
                    /\ Negative(mmax) => Le0(output_datastore[e].data[i][2])

\* the predictor returned a negative value for a sample that reached the sink
C4_Witness ==
    /\ op = "disaggregate"
    /\ Positive(mmax)
    /\ call.fn = "disaggregate_chunk"
    /\ ~call.raised
    /\ \E i \in 1..Len(call.ret) : Lt0(call.ret[i][2])
    /\ Len(output_datastore) > 0

\* C5: a chunk shorter than sequence_length is skipped: no predict call, nothing
\* appended, no timeframe tracked, no error, scale and predictor unchanged, and
\* the loop goes on.
C5_Skip ==
    [][(/\ pc = "disaggregate"
        /\ Len(lens') = Len(lens) + 1
        /\ lens'[Len(lens')] < sequence_length)
       => /\ output_datastore' = output_datastore
          /\ timeframes' = timeframes
          /\ data_is_available' = data_is_available
          /\ call' = call
          /\ err' = err
          /\ mmax' = mmax
          /\ model' = model
          /\ pc' = "disaggregate"]_vars

\* a short chunk was skipped and the chunk after it was processed
C5_Witness ==
    /\ op = "disaggregate"
    /\ Len(lens) = 2
    /\ lens[1] < sequence_length
    /\ lens[2] >= sequence_length
    /\ timeframes = <<2>>
    /\ Len(output_datastore) = 2

\* C6: import_model of a valid predictor artifact without the mmax metadata
\* fails and leaves both the scale and the predictor as they were.
C6_FailedImportUntouched ==
    [][(/\ op' = "import_model"
        /\ file.exists
        /\ (~file.group \/ file.mmax = None))
       => /\ err' # "none"
          /\ mmax' = mmax
          /\ model' = model]_vars

\* C7: train ends normally when a source is exhausted, after exactly
\* min(M, K) fits, the i-th on the i-th chunk of each source.
C7_TrainEnds ==
    (op = "train" /\ pc = "done") =>
        /\ err = "none"
        /\ Len(fitLog) = Min2(main_power_series.left + main_power_series.pulled,
                              meter_power_series.left + meter_power_series.pulled)
        /\ \A i \in 1..Len(fitLog) : fitLog[i] = <<i, i>>

\* C8: in disaggregate on an instance whose scale is set, the metadata is handed
\* to the sink at most once, after every append, and when disaggregate has ended
\* it is there exactly if some chunk had length >= sequence_length, holding
\* those chunks' timeframes in order.
C8_Metadata ==
    (op = "disaggregate" /\ mmax # None) =>
        /\ \A e \in 1..Len(output_datastore) :
            output_datastore[e].kind = "metadata" =>
                /\ e = Len(output_datastore)
                /\ pc = "done"
                /\ output_datastore[e].timeframes =
                     SelectSeq([i \in 1..Len(lens) |-> i],
                               LAMBDA i : lens[i] >= sequence_length)
        /\ pc = "done" =>
            ((\E i \in 1..Len(lens) : lens[i] >= sequence_length)
              <=> (/\ Len(output_datastore) > 0
                   /\ output_datastore[Len(output_datastore)].kind = "metadata"))

\* C9: normalizing with a scale <= 0 is reported as InvalidScale.
C9_InvalidScale ==
    /\ (op = "train" /\ Len(fitLog) > 0 /\ NotPositive(mmax)) => err = "InvalidScale"
    /\ (op = "disaggregate" /\ call.fn = "disaggregate_chunk" /\ NotPositive(mmax))
         => err = "InvalidScale"

\* the samples of chunk c at the timestamps of T, in time order, zero-filled
AtCommon(c, T) ==
    [k \in 1..Cardinality(T) |->
        LET t == CHOOSE u \in T : Cardinality({w \in T : w < u}) = k - 1
            p == CHOOSE q \in Range(c) : q[1] = t
        IN  IF IsNaN(p[2]) THEN Zero ELSE p[2]]

\* C10: train_on_chunk windows both series over their common timestamps only:
\* both batches have floor(c/s) + 1 windows, and position j of window i holds,
\* in both, the sample at the same common timestamp, or a pad zero.
C10_Aligned ==
    op = "train_on_chunk" =>
        LET T == Range(Index(mainchunk.data)) \cap Range(Index(meterchunk.data)) IN
        /\ Range(call.ix) = T
        /\ Len(call.ix) = Cardinality(T)
        /\ Len(call.X_batch) = (Cardinality(T) \div sequence_length) + 1
        /\ Len(call.Y_batch) = Len(call.X_batch)
        /\ IsWindowing(call.X_batch, AtCommon(mainchunk.data, T), sequence_length)
        /\ IsWindowing(call.Y_batch, AtCommon(meterchunk.data, T), sequence_length)

\* mains at {1,2}, meter at {2,3}: the windows are built from timestamp 2 only
C10_Witness ==
    /\ op = "train_on_chunk"
    /\ Index(mainchunk.data) = <<1, 2>>
    /\ Index(meterchunk.data) = <<2, 3>>
    /\ call.ix = <<2>>

====
